---- MODULE Spec2Model ----
(***************************************************************************)
(* Model of the WebSocket relay of hello_api.py: the ConnectionManager     *)
(* registry (role -> websocket) and the per-connection coroutine           *)
(* websocket_endpoint (API-key gate, handshake, message loop).             *)
(*                                                                         *)
(* Every connection is one asyncio task.  A step of the model is the code  *)
(* a task runs between two suspension points: the awaited receive_text of  *)
(* the handshake and of the loop, and every awaited ws.send_text.  The     *)
(* calls of store_data_in_rds are synchronous and belong to the step that  *)
(* issues them.                                                            *)
(***************************************************************************)
EXTENDS Integers, Sequences, FiniteSets, TLC

\* ------------------------------------------------------------------ bounds
\* connections accepted by the server during a run
MaxConns == 2
\* receive_text calls (handshake and loop together) that return or raise
MaxFrames == 4

Conns == 1..MaxConns

\* ------------------------------------------------------- program constants
PolicyViolation == 1008
ProtocolError == 1003

None == "None"
expected_key == "service-must**on**1216!"
KnownRoles == {"local_admin1d", "local_admin", "online_admin", "local_datalogger"}

\* ------------------------------------------------------------------ inputs
\* what a client can put in the api_key query parameter / x-api-key header
KeyInputs == {None, expected_key, "wrong-key"}
\* clientType values a handshake frame can carry (None: the key is absent)
ClientTypeInputs == KnownRoles \cup {"intruder", None}
\* actions a frame can name ("message" is in the docstring, no branch handles it)
ActionInputs == {"streaming", "command", "check_health", "check_access", "request",
                 "message"}
\* `data` values: two command payloads, a telemetry pack with both sub-records
\* and one without 'ems' (data['ems'] raises KeyError).  Only the streaming and command branches read `data`;
\* the frames of the other actions carry none.
DataInputs(a) ==
    IF a = "streaming" THEN {"pack_bms_ems", "pack_bms"}
    ELSE IF a = "command" THEN {"cmd_stop", "cmd_go"}
    ELSE {None}
\* outcome of one call of store_data_in_rds: the insert commits, the insert
\* raises inside the try block (rollback, False), or reflecting the table /
\* opening the connection raises before the try block is entered
StoreOutcomes == {"committed", "rolled_back", "raised"}
\* outcome of ws.send_text on a websocket whose handler task has ended
DeadSendOutcomes == {"ignored", "WebSocketDisconnect", "RuntimeError"}

\* A text frame: not JSON at all, JSON that is no object, or a JSON object.
Frame(ct, a, d) == [kind |-> "object", clientType |-> ct, action |-> a, data |-> d]
InvalidFrame == [kind |-> "invalid", clientType |-> None, action |-> None, data |-> None]
ArrayFrame == [kind |-> "array", clientType |-> None, action |-> None, data |-> None]
Disconnected == [kind |-> "disconnect", clientType |-> None, action |-> None, data |-> None]
NoFrame == [kind |-> "none", clientType |-> None, action |-> None, data |-> None]

HandshakeInputs == {Frame(ct, None, None) : ct \in ClientTypeInputs}
                       \cup {InvalidFrame, ArrayFrame, Disconnected}
\* (a loop frame that is JSON but no object ends the task like one that is no
\* JSON, at message.get instead of json.loads; the loop is given the latter)
\* Loop frames carry no clientType, but for check_access, which names
\* online_admin as its sender whichever client sends it.
SteadyClientType(a) == IF a = "check_access" THEN "online_admin" ELSE None
SteadyInputs == UNION {{Frame(SteadyClientType(a), a, d) : d \in DataInputs(a)} : a \in ActionInputs}
                    \cup {InvalidFrame, Disconnected}

\* ------------------------------------------------------------------- state
VARIABLES
    pc,                 \* position of each connection's coroutine
    api_key,            \* websocket_endpoint: api_key
    init_msg,           \* websocket_endpoint: the frame read by the handshake
    client_type,        \* websocket_endpoint: client_type
    close_code,         \* code passed to websocket.close (0: close not called)
    active_connections, \* ConnectionManager.active_connections, as <<role, ws>> pairs
    sent,               \* per websocket, the texts handed to ws.send_text
    stored,             \* rows handed to store_data_in_rds, with the outcome
    pending,            \* send_message calls the current dispatch has still to make
    cur,                \* the frame the loop is dispatching (or dispatched last)
    exit,               \* how the coroutine ended
    reads,              \* frames each coroutine has read with receive_text
    nframes             \* receive_text calls completed so far (bounded by MaxFrames)

vars == <<pc, api_key, init_msg, client_type, close_code, active_connections,
          sent, stored, pending, cur, exit, reads, nframes>>

\* ------------------------------------------------------- the dict registry
\* `k in d`
InDict(d, k) == \E p \in d : p[1] = k
\* d.get(k)
DictGet(d, k) == IF InDict(d, k) THEN (CHOOSE p \in d : p[1] = k)[2] ELSE 0
\* faulty variant: the assignment adds a pair and leaves an older one for the key
DictSetKeepsOld(d, k, v) == d \cup {<<k, v>>}
\* d[k] = v
DictSet(d, k, v) == {p \in d : p[1] # k} \cup {<<k, v>>}
\* del d[k]
DictDel(d, k) == {p \in d : p[1] # k}

\* the keys of the dict
Registered(d) == {p[1] : p \in d}

\* faulty variant: a role that has an entry keeps it (dict.setdefault)
connectKeepsFirst(d, role, ws) == IF InDict(d, role) THEN d ELSE DictSet(d, role, ws)
\* ConnectionManager.connect
connect(d, role, ws) == DictSet(d, role, ws)
\* ConnectionManager.disconnect
disconnect(d, role) == IF InDict(d, role) THEN DictDel(d, role) ELSE d

\* ------------------------------------------------------------ wire formats
\* json.loads raises on text that is no JSON
JSONDecodeError ==
    [kind |-> "JSONDecodeError", clientType |-> None, action |-> None, data |-> None]
JsonLoads(f) == IF f.kind = "invalid" THEN JSONDecodeError ELSE f
\* value.get(key) raises AttributeError unless the value is a dict
HasGet(v) == v.kind = "object"

\* json.dumps of the dicts the endpoint builds, and of a forwarded `data`
Status(s, m) == [kind |-> "status", status |-> s, body |-> m]
Payload(d) == [kind |-> "data", status |-> None, body |-> d]
Notice == [kind |-> "request", status |-> None, body |-> "Online app request permission"]

\* data['bms'] / data['ems']: which `data` values are dicts holding the key
HasKey(d, k) ==
    \/ d = "pack_bms_ems" /\ k \in {"bms", "ems"}
    \/ d = "pack_bms" /\ k = "bms"

\* ------------------------------------------------------------------ AuthGate
\* websocket.query_params.get("api_key") or websocket.headers.get("x-api-key")
ApiKey(q, h) == IF q \notin {None, ""} THEN q ELSE h
\* faulty variant: `and` for `or`: only a missing key is turned away
AuthOKAnd(k) == ~(k \in {None, ""} /\ k # expected_key)
\* not (not api_key or api_key != expected_key)
AuthOK(k) == ~(k \in {None, ""} \/ k # expected_key)

\* -------------------------------------------------------------- the handshake
\* faulty variant: only an absent clientType is turned away
IsKnownRoleNotNone(ct) == ct # None
\* line 116: client_type in ("local_admin1d", "local_admin", "online_admin", ...)
IsKnownRole(ct) == ct \in KnownRoles

\* the handshake's try block reaches line 123
HandshakeOK(f) ==
    /\ f.kind # "disconnect"
    /\ JsonLoads(f) # JSONDecodeError
    /\ HasGet(JsonLoads(f))
    /\ IsKnownRole(JsonLoads(f).clientType)

\* ------------------------------------------------------------ store_data_in_rds
\* one call: the row it was asked to insert, and what became of it
Row(table, d, key, outcome) ==
    [op |-> "store", table |-> table, data |-> d, key |-> key, result |-> outcome]
\* the bool the call returns (no value when it raises)
store_data_in_rds(outcome) == outcome = "committed"

\* the outcomes the environment can give the store call for data[key] (a call
\* that is never made has none to choose)
StoreCalls(ct, f, key) ==
    IF f.action = "streaming" /\ ct = "local_datalogger" /\ HasKey(f.data, key)
    THEN StoreOutcomes ELSE {"committed"}

\* --------------------------------------------------------------- dispatch
Op(role, msg) == [role |-> role, msg |-> msg]
Plan(writes, crash, ops) == [writes |-> writes, crash |-> crash, ops |-> ops]

\* lines 135-143: action == "streaming" and client_type == "local_datalogger"
Streaming(d, r1, r2) ==
    IF ~HasKey(d, "bms") THEN Plan(<<>>, TRUE, <<>>)
    ELSE IF r1 = "raised" THEN Plan(<<Row("bms_data", d, "bms", r1)>>, TRUE, <<>>)
    ELSE IF ~HasKey(d, "ems") THEN Plan(<<Row("bms_data", d, "bms", r1)>>, TRUE, <<>>)
    ELSE IF r2 = "raised"
         THEN Plan(<<Row("bms_data", d, "bms", r1), Row("ems_data", d, "ems", r2)>>,
                   TRUE, <<>>)
    ELSE LET success == store_data_in_rds(r2)
             response == Status(IF success THEN "OK" ELSE "ERROR",
                                IF success THEN "Data stored in RDS"
                                           ELSE "Failed to store data")
         IN  Plan(<<Row("bms_data", d, "bms", r1), Row("ems_data", d, "ems", r2)>>,
                  FALSE, <<Op("local_datalogger", response)>>)

\* lines 147-154: action == "command", client_type == "online_admin"
CommandOnline(d, reg) ==
    IF InDict(reg, "local_admin")
    THEN LET response == Status("OK", "Command forwarded to local app")
         IN  Plan(<<>>, FALSE, <<Op("local_admin", Payload(d)),
                                 Op("online_admin", response),
                                 Op("online_admin", response)>>)
    ELSE LET response == Status("ERROR", "No local app connected")
         IN  Plan(<<>>, FALSE, <<Op("online_admin", response)>>)

\* line 156: client_type == "local_admin" or "local_admin1d"
\* (Python: a non-empty string is true)
IsLocalSender(ct) == ct = "local_admin" \/ TRUE

\* lines 156-163
CommandLocal(ct, d, reg) ==
    IF InDict(reg, "online_admin")
    THEN Plan(<<>>, FALSE, <<Op("online_admin", Payload(d)),
                             Op(ct, Status("OK", "Command forwarded to online app"))>>)
    ELSE Plan(<<>>, FALSE, <<Op(ct, Status("ERROR", "No online app connected"))>>)

\* faulty variant: any local app counts, the read-only one too
CheckAccessAnyLocal(reg) ==
    IF InDict(reg, "local_admin") \/ InDict(reg, "local_admin1d")
    THEN Plan(<<>>, FALSE, <<Op("online_admin", Status("enabled", "Local app listening"))>>)
    ELSE Plan(<<>>, FALSE,
              <<Op("online_admin", Status("disabled", "Remote control not allowed"))>>)
\* lines 165-171
CheckAccess(reg) ==
    IF InDict(reg, "local_admin")
    THEN Plan(<<>>, FALSE, <<Op("online_admin", Status("enabled", "Local app listening"))>>)
    ELSE Plan(<<>>, FALSE,
              <<Op("online_admin", Status("disabled", "Remote control not allowed"))>>)

\* faulty variant: the notice goes to the local app that takes commands
RequestToLocalAdmin(reg) ==
    IF InDict(reg, "local_admin")
    THEN Plan(<<>>, FALSE, <<Op("local_admin", Notice)>>)
    ELSE Plan(<<>>, FALSE, <<>>)
\* lines 173-176
Request(reg) ==
    IF InDict(reg, "local_admin1d")
    THEN Plan(<<>>, FALSE, <<Op("local_admin1d", Notice)>>)
    ELSE Plan(<<>>, FALSE, <<>>)

\* faulty variant: the reply is addressed like the one of check_access
CheckHealthToOnline(ct) ==
    Plan(<<>>, FALSE, <<Op("online_admin", Status("OK", "waiting actions from " \o ct))>>)
\* lines 178-181
CheckHealth(ct) ==
    Plan(<<>>, FALSE, <<Op(ct, Status("OK", "waiting actions from " \o ct))>>)

\* faulty variant: the check_access and request rows do not test the role
DispatchAnyRole(ct, action, d, reg, r1, r2) ==
    IF action = "streaming" /\ ct = "local_datalogger" THEN Streaming(d, r1, r2)
    ELSE IF action = "command"
         THEN IF ct = "online_admin" THEN CommandOnline(d, reg)
              ELSE IF IsLocalSender(ct) THEN CommandLocal(ct, d, reg)
              ELSE Plan(<<>>, FALSE, <<>>)
    ELSE IF action = "check_access" THEN CheckAccess(reg)
    ELSE IF action = "request" THEN Request(reg)
    ELSE IF action = "check_health" THEN CheckHealth(ct)
    ELSE Plan(<<>>, FALSE, <<>>)
\* lines 135-181: the if/elif chain of the loop body, for a parsed message
Dispatch(ct, action, d, reg, r1, r2) ==
    IF action = "streaming" /\ ct = "local_datalogger" THEN Streaming(d, r1, r2)
    ELSE IF action = "command"
         THEN IF ct = "online_admin" THEN CommandOnline(d, reg)
              ELSE IF IsLocalSender(ct) THEN CommandLocal(ct, d, reg)
              ELSE Plan(<<>>, FALSE, <<>>)
    ELSE IF action = "check_access" /\ ct = "online_admin" THEN CheckAccess(reg)
    ELSE IF action = "request" /\ ct = "online_admin" THEN Request(reg)
    ELSE IF action = "check_health" THEN CheckHealth(ct)
    ELSE Plan(<<>>, FALSE, <<>>)

\* faulty variant: the role is taken from the frame's own clientType when it
\* carries one
DispatchMessageByClaimedRole(ct, message, reg, r1, r2) ==
    Dispatch(IF message.clientType # None THEN message.clientType ELSE ct,
             message.action, message.data, reg, r1, r2)
\* lines 131-135: action = message.get("action"), data = message.get("data"),
\* then the chain, with the client_type of the handshake
DispatchMessage(ct, message, reg, r1, r2) ==
    Dispatch(ct, message.action, message.data, reg, r1, r2)

\* ------------------------------------------------------------ send_message
\* ConnectionManager.send_message(role, msg): the websocket it writes to
\* (0: the role has no entry, nothing is awaited)
send_message(reg, role) == DictGet(reg, role)

\* the send_message calls that find no websocket return without suspending
RECURSIVE SkipAbsent(_, _)
SkipAbsent(ops, reg) ==
    IF ops = <<>> THEN <<>>
    ELSE IF send_message(reg, Head(ops).role) # 0 THEN ops
    ELSE SkipAbsent(Tail(ops), reg)

\* faulty variant: the text is put in front of the texts already written
DeliverFirst(q, msg) == <<msg>> \o q
\* ws.send_text: the text is written to the websocket after the earlier ones
Deliver(q, msg) == Append(q, msg)

Sent(role, ws, msg, outcome) ==
    [op |-> "send", role |-> role, to |-> ws, msg |-> msg, result |-> outcome]

\* The handler task of a websocket has ended (its transport is closed).
Dead(ws) == pc[ws] = "Closed"

\* ------------------------------------------------------------------- Init
NoMessage == [n |-> 0, frame |-> NoFrame, reg |-> {}, eff |-> <<>>]

Init ==
    /\ pc = [c \in Conns |-> "AwaitingAuth"]
    /\ api_key = [c \in Conns |-> None]
    /\ init_msg = [c \in Conns |-> NoFrame]
    /\ client_type = [c \in Conns |-> None]
    /\ close_code = [c \in Conns |-> 0]
    /\ active_connections = {}
    /\ sent = [c \in Conns |-> <<>>]
    /\ stored = <<>>
    /\ pending = [c \in Conns |-> <<>>]
    /\ cur = [c \in Conns |-> NoMessage]
    /\ exit = [c \in Conns |-> None]
    /\ reads = [c \in Conns |-> 0]
    /\ nframes = 0

\* Connections are numbered in the order in which they leave the handshake
\* phase: up to manager.connect a connection's task reads and writes nothing
\* but its own locals, so its gate and accept commute with every step of the
\* other tasks.
Arrived(c) == IF c = 1 THEN TRUE ELSE pc[c - 1] \notin {"AwaitingAuth", "AwaitingHandshake"}

\* ---------------------------------------------------------------- actions
\* lines 101-106: the key is missing or wrong, close(1008) and return
AuthReject(c) ==
    /\ pc[c] = "AwaitingAuth" /\ Arrived(c)
    /\ \E q \in KeyInputs, h \in KeyInputs :
          /\ ~AuthOK(ApiKey(q, h))
          /\ api_key' = [api_key EXCEPT ![c] = ApiKey(q, h)]
    /\ close_code' = [close_code EXCEPT ![c] = PolicyViolation]
    /\ pc' = [pc EXCEPT ![c] = "Closed"]
    /\ exit' = [exit EXCEPT ![c] = "auth_rejected"]
    /\ UNCHANGED <<init_msg, client_type, active_connections, sent, stored, pending,
                   cur, reads, nframes>>

\* lines 101-109: the key is right, websocket.accept()
Accept(c) ==
    /\ pc[c] = "AwaitingAuth" /\ Arrived(c)
    /\ \E q \in KeyInputs, h \in KeyInputs :
          /\ AuthOK(ApiKey(q, h))
          /\ api_key' = [api_key EXCEPT ![c] = ApiKey(q, h)]
    /\ pc' = [pc EXCEPT ![c] = "AwaitingHandshake"]
    /\ UNCHANGED <<init_msg, client_type, close_code, active_connections, sent, stored,
                   pending, cur, exit, reads, nframes>>

\* faulty variant: close(1003) without the return: the task goes on into the loop
HandshakeRejectNoReturn(c) ==
    /\ pc[c] = "AwaitingHandshake" /\ nframes < MaxFrames
    /\ nframes' = nframes + 1
    /\ \E f \in HandshakeInputs :
          /\ ~HandshakeOK(f)
          /\ init_msg' = [init_msg EXCEPT ![c] = f]
          /\ reads' = [reads EXCEPT ![c] = IF f.kind = "disconnect" THEN @ ELSE @ + 1]
          /\ client_type' = [client_type EXCEPT
                                ![c] = IF f.kind = "object" THEN f.clientType ELSE @]
    /\ close_code' = [close_code EXCEPT ![c] = ProtocolError]
    /\ pc' = [pc EXCEPT ![c] = "Ready"]
    /\ UNCHANGED <<api_key, active_connections, sent, stored, pending, cur, exit>>

\* lines 112-121: the first frame is missing, malformed or names no known
\* role: close(1003) and return
HandshakeReject(c) ==
    /\ pc[c] = "AwaitingHandshake" /\ nframes < MaxFrames
    /\ nframes' = nframes + 1
    /\ \E f \in HandshakeInputs :
          /\ ~HandshakeOK(f)
          /\ init_msg' = [init_msg EXCEPT ![c] = f]
          /\ reads' = [reads EXCEPT ![c] = IF f.kind = "disconnect" THEN @ ELSE @ + 1]
          /\ client_type' = [client_type EXCEPT
                                ![c] = IF f.kind = "object" THEN f.clientType ELSE @]
    /\ close_code' = [close_code EXCEPT ![c] = ProtocolError]
    /\ pc' = [pc EXCEPT ![c] = "Closed"]
    /\ exit' = [exit EXCEPT ![c] = "handshake_rejected"]
    /\ UNCHANGED <<api_key, active_connections, sent, stored, pending, cur>>

\* lines 112-126: the first frame names a known role: manager.connect, then
\* the CONNECTED reply through manager.send_message; the task suspends in
\* the loop's first receive_text
Handshake(c) ==
    /\ pc[c] = "AwaitingHandshake" /\ nframes < MaxFrames
    /\ nframes' = nframes + 1
    /\ \E f \in HandshakeInputs :
          /\ HandshakeOK(f)
          /\ init_msg' = [init_msg EXCEPT ![c] = f]
          /\ client_type' = [client_type EXCEPT ![c] = f.clientType]
          /\ active_connections' = connect(active_connections, f.clientType, c)
          /\ LET ws == send_message(active_connections', f.clientType)
                 msg == Status("CONNECTED", f.clientType \o " client connected")
             IN  sent' = IF ws # 0 THEN [sent EXCEPT ![ws] = Deliver(@, msg)] ELSE sent
    /\ reads' = [reads EXCEPT ![c] = @ + 1]
    /\ pc' = [pc EXCEPT ![c] = "Ready"]
    /\ UNCHANGED <<api_key, close_code, stored, pending, cur, exit>>

\* The task of connection c runs the send_message calls `ops` up to the
\* first one that awaits ws.send_text; `rec` is the record of the frame
\* being dispatched.  A send_text on a websocket whose task has ended is
\* dropped by the transport or raises; WebSocketDisconnect is caught at
\* line 183, any other exception ends the task.
RunSends(c, ops, rec) ==
    LET todo == SkipAbsent(ops, active_connections)
    IN  IF todo = <<>>
        THEN /\ pc' = [pc EXCEPT ![c] = "Ready"]
             /\ pending' = [pending EXCEPT ![c] = <<>>]
             /\ cur' = [cur EXCEPT ![c] = rec]
             /\ UNCHANGED <<sent, active_connections, exit>>
        ELSE LET op == Head(todo)
                 ws == send_message(active_connections, op.role)
             IN  IF ~Dead(ws)
                 THEN /\ sent' = [sent EXCEPT ![ws] = Deliver(@, op.msg)]
                      /\ cur' = [cur EXCEPT ![c] =
                                   [rec EXCEPT !.eff = Append(@, Sent(op.role, ws, op.msg, "sent"))]]
                      /\ pending' = [pending EXCEPT ![c] = Tail(todo)]
                      /\ pc' = [pc EXCEPT ![c] = IF Tail(todo) = <<>> THEN "Ready" ELSE "Sending"]
                      /\ UNCHANGED <<active_connections, exit>>
                 ELSE \E o \in DeadSendOutcomes :
                      /\ cur' = [cur EXCEPT ![c] =
                                   [rec EXCEPT !.eff = Append(@, Sent(op.role, ws, op.msg, o))]]
                      /\ sent' = sent
                      /\ IF o = "ignored"
                         THEN /\ pending' = [pending EXCEPT ![c] = Tail(todo)]
                              /\ pc' = [pc EXCEPT ![c] =
                                          IF Tail(todo) = <<>> THEN "Ready" ELSE "Sending"]
                              /\ UNCHANGED <<active_connections, exit>>
                         ELSE /\ pending' = [pending EXCEPT ![c] = <<>>]
                              /\ pc' = [pc EXCEPT ![c] = "Closed"]
                              /\ IF o = "WebSocketDisconnect"
                                 THEN /\ active_connections' =
                                            disconnect(active_connections, client_type[c])
                                      /\ exit' = [exit EXCEPT ![c] = "disconnected"]
                                 ELSE /\ active_connections' = active_connections
                                      /\ exit' = [exit EXCEPT ![c] = "crashed"]

\* lines 130, 183-185: receive_text raises WebSocketDisconnect
Disconnect(c) ==
    /\ pc[c] = "Ready" /\ nframes < MaxFrames
    /\ nframes' = nframes + 1
    /\ active_connections' = disconnect(active_connections, client_type[c])
    /\ pc' = [pc EXCEPT ![c] = "Closed"]
    /\ exit' = [exit EXCEPT ![c] = "disconnected"]
    /\ cur' = [cur EXCEPT ![c] = [n |-> reads[c] + 1, frame |-> Disconnected,
                                  reg |-> Registered(active_connections), eff |-> <<>>]]
    /\ UNCHANGED <<api_key, init_msg, client_type, close_code, sent, stored, pending, reads>>

\* lines 130-133: the frame is no JSON object; json.loads or message.get
\* raises, nothing catches it and the task ends
ReceiveMalformed(c) ==
    /\ pc[c] = "Ready" /\ nframes < MaxFrames
    /\ nframes' = nframes + 1
    /\ \E f \in SteadyInputs :
          /\ f.kind # "disconnect"
          /\ (JsonLoads(f) = JSONDecodeError \/ ~HasGet(JsonLoads(f)))
          /\ cur' = [cur EXCEPT ![c] = [n |-> reads[c] + 1, frame |-> f,
                                        reg |-> Registered(active_connections), eff |-> <<>>]]
    /\ reads' = [reads EXCEPT ![c] = @ + 1]
    /\ pc' = [pc EXCEPT ![c] = "Closed"]
    /\ exit' = [exit EXCEPT ![c] = "crashed"]
    /\ UNCHANGED <<api_key, init_msg, client_type, close_code, active_connections, sent,
                   stored, pending>>

\* lines 130-181: a JSON object is received and dispatched, up to the first
\* awaited send_text
Receive(c) ==
    /\ pc[c] = "Ready" /\ nframes < MaxFrames
    /\ nframes' = nframes + 1
    /\ reads' = [reads EXCEPT ![c] = @ + 1]
    /\ \E f \in SteadyInputs :
       \E r1 \in StoreCalls(client_type[c], f, "bms"), r2 \in StoreCalls(client_type[c], f, "ems") :
          /\ f.kind = "object"
          /\ LET plan == DispatchMessage(client_type[c], JsonLoads(f), active_connections, r1, r2)
                 rec == [n |-> reads[c] + 1, frame |-> f, reg |-> Registered(active_connections),
                         eff |-> plan.writes]
             IN  /\ stored' = stored \o plan.writes
                 /\ IF plan.crash
                    THEN /\ pc' = [pc EXCEPT ![c] = "Closed"]
                         /\ exit' = [exit EXCEPT ![c] = "crashed"]
                         /\ cur' = [cur EXCEPT ![c] = rec]
                         /\ UNCHANGED <<active_connections, sent, pending>>
                    ELSE RunSends(c, plan.ops, rec)
    /\ UNCHANGED <<api_key, init_msg, client_type, close_code>>

\* the task resumes after an awaited send_text and goes on with the
\* send_message calls left in the branch it is in
Resume(c) ==
    /\ pc[c] = "Sending"
    /\ RunSends(c, pending[c], cur[c])
    /\ UNCHANGED <<api_key, init_msg, client_type, close_code, stored, reads, nframes>>

Next ==
    \E c \in Conns :
        \/ AuthReject(c)
        \/ Accept(c)
        \/ HandshakeReject(c)
        \/ Handshake(c)
        \/ Disconnect(c)
        \/ ReceiveMalformed(c)
        \/ Receive(c)
        \/ Resume(c)

Spec == Init /\ [][Next]_vars

\* ===================================================================
\* Properties
\* ===================================================================
\* what the client of connection c did, read off the inputs alone
GoodCredential(c) == api_key[c] = "service-must**on**1216!"
ValidHandshake(c) ==
    /\ init_msg[c].kind = "object"
    /\ init_msg[c].clientType \in {"local_admin1d", "local_admin", "online_admin",
                                   "local_datalogger"}
\* connection c entered the loop (the Ready state) at some point
WasReady(c) == pc[c] \in {"Ready", "Sending"} \/ exit[c] \in {"disconnected", "crashed"}
\* the dispatch of the frame in cur[c] has run to its end
Dispatched(c) == cur[c].frame.kind = "object" /\ pc[c] # "Sending"
\* the effects of the dispatch in cur[c], by position
Sends(c) == {i \in 1..Len(cur[c].eff) : cur[c].eff[i].op = "send"}
Stores(c) == {i \in 1..Len(cur[c].eff) : cur[c].eff[i].op = "store"}
StatusReplies(c) == {i \in Sends(c) : cur[c].eff[i].msg.kind = "status"}

\* C1: a connection that entered the loop and whose task has ended ran
\* manager.disconnect(client_type) on the way out, whatever ended the loop.
C1_UnregisterOnEveryExit ==
    \A c \in Conns : (WasReady(c) /\ pc[c] = "Closed") => exit[c] = "disconnected"

\* C2: every status reply sent while dispatching a frame of connection c is
\* written to the websocket of c and to no other websocket.
C2_RepliesGoToSender ==
    \A c \in Conns : \A i \in StatusReplies(c) : cur[c].eff[i].to = c

\* C3: a command of an online_admin connection dispatched while local_admin
\* has no registry entry makes exactly one send: the ERROR reply
\* "No local app connected", written to the sender's own websocket.
C3_NoLocalAppReply ==
    \A c \in Conns :
        (/\ Dispatched(c)
         /\ client_type[c] = "online_admin"
         /\ cur[c].frame.action = "command"
         /\ "local_admin" \notin cur[c].reg)
        => /\ Len(cur[c].eff) = 1
           /\ cur[c].eff[1].op = "send"
           /\ cur[c].eff[1].to = c
           /\ cur[c].eff[1].msg = Status("ERROR", "No local app connected")

\* the role the claim names as counterpart of a command's sender
Counterpart(ct) == IF ct = "online_admin" THEN "local_admin" ELSE "online_admin"
\* no handler task has ended on an uncaught exception
NoCrash == \A d \in Conns : exit[d] # "crashed"

\* C4: a command whose counterpart role is registered at dispatch causes
\* exactly two sends: the data payload, unmodified, to the counterpart's
\* websocket, and one OK status reply to the sender (stated for runs in
\* which no handler task has crashed).
C4_ForwardOnceReplyOnce ==
    \A c \in Conns :
        (/\ NoCrash
         /\ Dispatched(c)
         /\ client_type[c] \in {"online_admin", "local_admin", "local_admin1d"}
         /\ cur[c].frame.action = "command"
         /\ Counterpart(client_type[c]) \in cur[c].reg)
        => /\ Len(cur[c].eff) = 2
           /\ cur[c].eff[1].op = "send"
           /\ cur[c].eff[1].role = Counterpart(client_type[c])
           /\ cur[c].eff[1].msg = Payload(cur[c].frame.data)
           /\ cur[c].eff[2].op = "send"
           /\ cur[c].eff[2].to = c
           /\ cur[c].eff[2].msg.kind = "status"
           /\ cur[c].eff[2].msg.status = "OK"

\* C5: after a loop frame that is no JSON the connection is still open and
\* registered, its task is still in the loop, and an ERROR status reply was
\* sent to it.
C5_MalformedIsRecoverable ==
    \A c \in Conns :
        cur[c].frame.kind = "invalid"
        => /\ pc[c] \in {"Ready", "Sending"}
           /\ <<client_type[c], c>> \in active_connections
           /\ \E i \in StatusReplies(c) :
                 cur[c].eff[i].to = c /\ cur[c].eff[i].msg.status = "ERROR"

\* C6: the status replied to a streaming frame of local_datalogger is OK
\* exactly if every store call made for the frame committed, ERROR otherwise.
C6_StreamingStatus ==
    \A c \in Conns :
        (/\ Dispatched(c)
         /\ client_type[c] = "local_datalogger"
         /\ cur[c].frame.action = "streaming")
        => \A i \in StatusReplies(c) :
              /\ cur[c].eff[i].msg.status \in {"OK", "ERROR"}
              /\ cur[c].eff[i].msg.status = "OK"
                    <=> \A j \in Stores(c) : cur[c].eff[j].result = "committed"

\* C7: the registry never holds two websockets under one role.
C7_OneConnectionPerRole ==
    \A p \in active_connections : \A q \in active_connections :
        p[1] = q[1] => p = q

\* C7 witness: two live connections made the handshake for the same role and
\* the role has an entry.
C7_Witness ==
    \E c \in Conns : \E d \in Conns :
        /\ c # d
        /\ pc[c] = "Ready" /\ pc[d] = "Ready"
        /\ client_type[c] = client_type[d]
        /\ InDict(active_connections, client_type[c])

\* C8: a connection that did not present the right key followed by a
\* well-formed handshake naming a known role has caused no store and no send.
C8_NoEffectBeforeHandshake ==
    \A c \in Conns :
        ~(GoodCredential(c) /\ ValidHandshake(c))
        => /\ cur[c].eff = <<>>
           /\ pending[c] = <<>>
           /\ cur[c].frame.kind = "none"

\* C8 witness: one connection was turned away at the gate or at the handshake
\* while another one's dispatch has written rows and sent a reply.
C8_Witness ==
    \E c \in Conns : \E d \in Conns :
        /\ exit[c] \in {"auth_rejected", "handshake_rejected"}
        /\ Stores(d) # {} /\ Sends(d) # {}

\* the gate has dealt with connection c, which presented no key or a wrong one
BadCredential(c) == pc[c] # "AwaitingAuth" /\ ~GoodCredential(c)

\* C9: a connection with a missing or wrong key is closed with code 1008,
\* no frame is ever read from it, it never gets a registry entry, and the
\* step that rejects it leaves the registry as it was.
C9_AuthRejected ==
    /\ [](\A c \in Conns :
            BadCredential(c)
            => /\ pc[c] = "Closed"
               /\ close_code[c] = 1008
               /\ reads[c] = 0
               /\ init_msg[c].kind = "none"
               /\ sent[c] = <<>>
               /\ \A p \in active_connections : p[2] # c)
    /\ [][\A c \in Conns :
            (pc[c] = "AwaitingAuth" /\ pc'[c] = "Closed")
            => active_connections' = active_connections]_vars

\* C9 witness: a connection was rejected at the gate while a role is registered.
C9_Witness ==
    \E c \in Conns :
        /\ BadCredential(c) /\ pc[c] = "Closed"
        /\ active_connections # {}

\* the first frame of connection c was malformed or named no known role
BadHandshake(c) ==
    /\ GoodCredential(c)
    /\ \/ init_msg[c].kind \in {"invalid", "array"}
       \/ /\ init_msg[c].kind = "object"
          /\ init_msg[c].clientType \notin {"local_admin1d", "local_admin", "online_admin",
                                            "local_datalogger"}

\* C10: a connection whose first frame is malformed or names no known role is
\* closed with code 1003, is sent nothing, gets no registry entry, has no
\* further frame read, and the rejecting step leaves the registry as it was.
C10_HandshakeRejected ==
    /\ [](\A c \in Conns :
            BadHandshake(c)
            => /\ pc[c] = "Closed"
               /\ close_code[c] = 1003
               /\ sent[c] = <<>>
               /\ reads[c] = 1
               /\ cur[c].frame.kind = "none"
               /\ \A p \in active_connections : p[2] # c)
    /\ [][\A c \in Conns :
            (pc[c] = "AwaitingHandshake" /\ pc'[c] = "Closed")
            => active_connections' = active_connections /\ sent' = sent]_vars

\* C10 witness: a connection was rejected at the handshake for an unknown
\* role while a role is registered.
C10_Witness ==
    \E c \in Conns :
        /\ BadHandshake(c) /\ pc[c] = "Closed"
        /\ init_msg[c].kind = "object"
        /\ active_connections # {}

\* the CONNECTED replies written to connection c, by position
ConnectedReplies(c) == {i \in 1..Len(sent[c]) : sent[c][i].status = "CONNECTED"}

\* C11: the step that completes a handshake registers the role to the new
\* connection and writes the CONNECTED reply to that connection and to no
\* other; a connection that entered the loop has got exactly one CONNECTED
\* reply, as the first text written to it, hence before any frame of its
\* loop was dispatched; a connection that did not enter the loop has got none.
C11_ConnectedToNewConnection ==
    /\ [](\A c \in Conns :
            IF WasReady(c)
            THEN /\ Cardinality(ConnectedReplies(c)) = 1
                 /\ sent[c][1] = [kind |-> "status", status |-> "CONNECTED",
                                  body |-> client_type[c] \o " client connected"]
            ELSE sent[c] = <<>> /\ cur[c].frame.kind = "none")
    /\ [][\A c \in Conns :
            (pc[c] = "AwaitingHandshake" /\ pc'[c] = "Ready")
            => /\ <<client_type'[c], c>> \in active_connections'
               /\ sent'[c] = <<[kind |-> "status", status |-> "CONNECTED",
                                body |-> client_type'[c] \o " client connected"]>>
               /\ \A d \in Conns \ {c} : sent'[d] = sent[d]]_vars

\* C11 witness: a connection completed its handshake for a role that another
\* connection, still in its loop, was registered for, and then had a frame
\* dispatched.
C11_Witness ==
    \E c, d \in Conns :
        /\ d < c /\ client_type[d] = client_type[c]
        /\ pc[d] = "Ready" /\ WasReady(c)
        /\ <<client_type[c], c>> \in active_connections
        /\ Len(sent[d]) = 1
        /\ Dispatched(c)

\* the step in which connection c receives and dispatches a frame with
\* action a
Dispatches(c, a) ==
    /\ pc[c] = "Ready" /\ reads'[c] = reads[c] + 1
    /\ cur'[c].frame.kind = "object" /\ cur'[c].frame.action = a

ClaimedRoles == {"local_admin1d", "local_admin", "online_admin", "local_datalogger",
                 "intruder", "None"}

\* the registries: at most one websocket for a role
Registries ==
    {reg \in SUBSET ({"local_admin1d", "local_admin", "online_admin", "local_datalogger"}
                      \X Conns) :
        \A p, q \in reg : p[1] = q[1] => p = q}

\* the step of connection c carries out `plan`: its store calls and, when
\* `todo` (its send_message calls that find a websocket) has one, the first
\* of them; `eff` is the record the step leaves
Carries(c, plan, todo, eff) ==
    /\ stored' = stored \o plan.writes
    /\ IF todo = <<>>
       THEN eff = plan.writes /\ sent' = sent /\ pending'[c] = <<>>
       ELSE /\ eff = Append(plan.writes, eff[Len(eff)])
            /\ eff[Len(eff)].op = "send"
            /\ eff[Len(eff)].role = Head(todo).role
            /\ eff[Len(eff)].msg = Head(todo).msg
            /\ pending'[c] = Tail(todo) \/ pc'[c] = "Closed"
\* the step of connection c is the one that the dispatch of frame f, for the
\* handshake role of c and the registry of the moment, prescribes
StepFollows(c, f) ==
    \E r1 \in StoreCalls(client_type[c], f, "bms"), r2 \in StoreCalls(client_type[c], f, "ems") :
    \E plan \in {DispatchMessage(client_type[c], f, active_connections, r1, r2)} :
    \E todo \in {IF plan.crash THEN <<>> ELSE SkipAbsent(plan.ops, active_connections)} :
    \E eff \in {cur'[c].eff} :
        Carries(c, plan, todo, eff)

\* C13: what the dispatch prescribes for a frame is the same for every value
\* of the frame's own clientType field, for every handshake role, registry
\* and store outcome; every step in which a connection dispatches a frame
\* that carries a clientType carries out what is prescribed, for the
\* connection's handshake role, for the frame without it; and a check_access
\* frame that names online_admin as its sender, dispatched for a connection
\* of another role, has had no effect.
C13_HandshakeRoleGoverns ==
    /\ \A ct \in {"local_admin1d", "local_admin", "online_admin", "local_datalogger"} :
       \A f \in {g \in SteadyInputs : g.kind = "object"} :
       \A reg \in Registries, v \in ClaimedRoles :
       \A r1 \in StoreCalls(ct, f, "bms"), r2 \in StoreCalls(ct, f, "ems") :
          DispatchMessage(ct, [f EXCEPT !.clientType = v], reg, r1, r2)
          = DispatchMessage(ct, [f EXCEPT !.clientType = "None"], reg, r1, r2)
    /\ [](\A c \in Conns :
            (Dispatched(c) /\ cur[c].frame.action = "check_access"
                           /\ cur[c].frame.clientType = "online_admin"
                           /\ client_type[c] # "online_admin")
            => cur[c].eff = <<>> /\ pc[c] = "Ready")
    /\ [][\A c \in Conns :
            (pc[c] = "Ready" /\ reads'[c] = reads[c] + 1 /\ cur'[c].frame.kind = "object"
                /\ cur'[c].frame.clientType # "None")
            => StepFollows(c, [cur'[c].frame EXCEPT !.clientType = "None"])]_vars

\* C13 witness: a local_datalogger connection had a check_access frame
\* dispatched that names online_admin as its sender, while online_admin was
\* registered.
C13_Witness ==
    \E c \in Conns :
        /\ Dispatched(c) /\ client_type[c] = "local_datalogger"
        /\ cur[c].frame.action = "check_access"
        /\ cur[c].frame.clientType = "online_admin"
        /\ "online_admin" \in cur[c].reg
        /\ cur[c].eff = <<>>

RepliesOf(rec) == {rec.eff[i].msg : i \in {j \in 1..Len(rec.eff) : rec.eff[j].op = "send"}}

\* C15: the step in which an online_admin connection dispatches check_access
\* leaves the registry as it was; and when the frame it dispatched before
\* was a check_access too, dispatched with the same roles registered, the
\* two dispatches sent the same reply.
C15_CheckAccessIdempotent ==
    [][\A c \in Conns :
          (Dispatches(c, "check_access") /\ client_type[c] = "online_admin")
          => /\ active_connections' = active_connections
             /\ (cur[c].frame.kind = "object" /\ cur[c].frame.action = "check_access"
                    /\ cur[c].reg = cur'[c].reg)
                => RepliesOf(cur'[c]) = RepliesOf(cur[c])]_vars

\* the dispatch record rec is of a command that was forwarded: its first
\* effect is the payload written to the websocket of the target role
Forwarded(rec) ==
    /\ rec.frame.kind = "object" /\ rec.frame.action = "command"
    /\ rec.eff # <<>>
    /\ rec.eff[1].op = "send" /\ rec.eff[1].msg.kind = "data" /\ rec.eff[1].result = "sent"

MatchesNoRow(ct, f) ==
    \/ f.action \notin {"streaming", "command", "check_health", "check_access", "request"}
    \/ f.action = "streaming" /\ ct # "local_datalogger"
    \/ f.action \in {"check_access", "request"} /\ ct # "online_admin"

C18_CommandSenders ==
    \A c \in Conns :
        (cur[c].frame.kind = "object" /\ cur[c].frame.action = "command")
        => /\ (\E i \in Sends(c) : /\ cur[c].eff[i].role = "online_admin"
                                   /\ cur[c].eff[i].msg.kind = "data")
              => client_type[c] \in {"local_admin", "local_admin1d"}
           /\ client_type[c] = "local_datalogger" => Sends(c) = {}

\* connection c is the one that completed a handshake for its role last
LatestForRole(c) ==
    /\ WasReady(c)
    /\ \A d \in Conns : (d > c /\ WasReady(d)) => client_type[d] # client_type[c]

\* C19: the connection that completed a handshake for its role last, while
\* it is in its loop, is the registry's entry for that role: the exit of
\* another connection of the same role does not remove it.
C19_DisconnectKeepsSuccessor ==
    \A c \in Conns :
        (LatestForRole(c) /\ pc[c] \in {"Ready", "Sending"})
        => <<client_type[c], c>> \in active_connections

\* C20: a dispatched request of an online_admin connection made no store
\* call; when local_admin1d was registered it made one send, of the fixed
\* notice, to the websocket of local_admin1d, and when it was not it made
\* none: no reply to the sender, nothing to local_admin or local_datalogger.
C20_RequestNotice ==
    \A c \in Conns :
        (Dispatched(c) /\ cur[c].frame.action = "request" /\ client_type[c] = "online_admin")
        => IF "local_admin1d" \in cur[c].reg
           THEN /\ Len(cur[c].eff) = 1
                /\ cur[c].eff[1].op = "send"
                /\ cur[c].eff[1].role = "local_admin1d"
                /\ cur[c].eff[1].to # c
                /\ cur[c].eff[1].msg = [kind |-> "request", status |-> "None",
                                        body |-> "Online app request permission"]
           ELSE cur[c].eff = <<>>

\* C20 witness: the local_admin1d connection holds the notice that an
\* online_admin's request made, and the sender got nothing after CONNECTED.
C20_Witness ==
    \E c, t \in Conns :
        /\ Dispatched(c) /\ cur[c].frame.action = "request" /\ client_type[c] = "online_admin"
        /\ client_type[t] = "local_admin1d"
        /\ Len(cur[c].eff) = 1 /\ cur[c].eff[1].to = t /\ cur[c].eff[1].result = "sent"
        /\ Len(sent[t]) = 2 /\ sent[t][2].kind = "request"
        /\ Len(sent[c]) = 1

====
